---- MODULE Spec2Model ----
(***************************************************************************)
(* Model of the unlurker web backend: the front-page ("second chance")     *)
(* time resolver with its single-flight group and one-minute cache, the    *)
(* scrape with drift correction, root selection and the activity marking   *)
(* of a discussion tree.                                                   *)
(*                                                                         *)
(* Time is counted in ticks. A unix timestamp has one-second resolution, a *)
(* time.Time / time.Duration has a finer one: TicksPerSecond ticks make a  *)
(* second (the nanoseconds of the program, coarsened).  Durations in the   *)
(* model stay far away from the limits of int64, so no Duration wraps.     *)
(***************************************************************************)
EXTENDS Integers, Sequences, FiniteSets, TLC

VARIABLES
    \* ---- front-page resolver (src/unnamed/part_002) ----
    clock,        \* time.Now(), in ticks
    fetchCache,   \* the atomic.Value: NoEntry or a fetchCacheEntry
    fetchGroup,   \* singleflight.Group: NoCall or the index of the call in flight
    calls,        \* history of the singleflight calls (one per underlying fetch)
    pc,           \* position of each caller inside fetchFrontPageTimes
    now,          \* the `now` argument of each caller (0 once it is no longer used)
    loaded,       \* the entry each caller got from fetchCache.Load(), until it is checked
    mycall,       \* the singleflight call each caller is attached to
    result,       \* what fetchFrontPageTimes returned to each caller
    requests,     \* number of calls of fetchFrontPageTimes so far
    ctx,          \* the context each caller supplied: "live" or "cancelled"
    \* ---- one scrape (fetchFrontPageTimesInner as a function) ----
    scPc, scResp, scNow, scOut,
    \* ---- one GET /active request ----
    world,        \* the items the item client knows: id -> [parent, time, dead, deleted]
    fpRes,        \* what the front-page resolver gives this request
    getErr,       \* whether unl.GetActive fails for this request
    candidates,   \* the items unl.GetActive returned to getActiveRoots of the sorting version, in its order
    hPc,          \* "ready" before the handler ran, "done" after
    hOut          \* what the handler computed and answered

fetchVars == <<clock, fetchCache, fetchGroup, calls, pc, now, loaded, mycall, result, requests, ctx>>
scrapeVars == <<scPc, scResp, scNow, scOut>>
handlerVars == <<world, fpRes, getErr, candidates, hPc, hOut>>
vars == <<fetchVars, scrapeVars, handlerVars>>

-----------------------------------------------------------------------------
(* Bounds of the model *)

TicksPerSecond == 2
NumCallers == 2
MaxRequests == 2
MaxClockSteps == 2
MaxMatches == 2
MaxItems == 3
MaxTreeItems == 4
MaxCandidates == 3

-----------------------------------------------------------------------------
(* package time *)

Second == TicksPerSecond
Minute == 60 * Second
Hour == 60 * Minute
Day == 24 * Hour

\* time.Unix(sec, 0)
TimeUnix(sec) == sec * Second

\* Time.Unix(): seconds since the epoch, the sub-second part dropped
Unix(t) == t \div Second

\* The wall clock when the process starts (a whole second, 30 days after the epoch).
StartTime == 30 * Day

-----------------------------------------------------------------------------
(* parseAge and relativeAgeRegex.  A phrase is the text the listing shows   *)
(* before " ago", as a sequence of tokens: decimal digits, the blank, the   *)
(* unit words and other words.                                              *)

Digits == {"0", "1", "2", "3", "4", "5", "6", "7", "8", "9"}
Blank == " "
UnitWords == {"hour", "hours", "minute", "minutes", "day", "days"}

DigitVal(d) ==
    CASE d = "0" -> 0 [] d = "1" -> 1 [] d = "2" -> 2 [] d = "3" -> 3 [] d = "4" -> 4
      [] d = "5" -> 5 [] d = "6" -> 6 [] d = "7" -> 7 [] d = "8" -> 8 [] d = "9" -> 9

\* first position >= i of s that holds no blank (Len(s)+1 if none): \s*
RECURSIVE SkipBlanks(_, _)
SkipBlanks(s, i) ==
    IF i <= Len(s) /\ s[i] = Blank THEN SkipBlanks(s, i + 1) ELSE i

\* first position >= i of s that holds no digit: \d*
RECURSIVE SkipDigits(_, _)
SkipDigits(s, i) ==
    IF i <= Len(s) /\ s[i] \in Digits THEN SkipDigits(s, i + 1) ELSE i

\* strconv.Atoi of the digits s[i..j-1]
RECURSIVE Atoi(_, _, _)
Atoi(s, i, j) ==
    IF j <= i THEN 0 ELSE 10 * Atoi(s, i, j - 1) + DigitVal(s[j - 1])

\* relativeAgeRegex.FindStringSubmatch: ^\s*(\d+)\s+(hour|...|days)\s*$
\* The result is <<>> (nil) or <<n, unit>>.
FindStringSubmatch(s) ==
    LET d0 == SkipBlanks(s, 1)
        d1 == SkipDigits(s, d0)
        u0 == SkipBlanks(s, d1)
    IN  IF /\ d1 > d0
           /\ u0 > d1
           /\ u0 <= Len(s)
           /\ s[u0] \in UnitWords
           /\ SkipBlanks(s, u0 + 1) = Len(s) + 1
        THEN <<Atoi(s, d0, d1), s[u0]>>
        ELSE <<>>

UnitDuration(u) ==
    CASE u \in {"minute", "minutes"} -> Minute
      [] u \in {"hour", "hours"} -> Hour
      [] u \in {"day", "days"} -> Day

ErrNone == "nil"
ErrUnexpectedAgeFormat == "unexpected age format"

\* parseAge: the duration of the phrase, or errUnexpectedAgeFormat
parseAge(s) ==
    LET m == FindStringSubmatch(s)
    IN  IF m = <<>>
        THEN [age |-> 0, err |-> ErrUnexpectedAgeFormat]
        ELSE [age |-> m[1] * UnitDuration(m[2]), err |-> ErrNone]

-----------------------------------------------------------------------------
(* fetchFrontPageTimesInner.  The response of the listing server is         *)
(* [kind, matches]: kind says how the request went, matches is what         *)
(* frontPageAgeExtractor.FindAllSubmatch finds in the body, one record      *)
(* [ts, id, phrase] per fragment (the title's unix time, the item id and    *)
(* the text before " ago").  A mapping id -> unix time is a function.       *)

ErrRequest == "failed to execute request"
ErrStatusNotOK == "status not ok"
ErrReadBody == "failed to read body"
FetchErrors == {ErrRequest, ErrStatusNotOK, ErrReadBody}

\* the error of a request whose context is cancelled before it ended
ErrCanceled == "context canceled"

\* a Go result (map[int]int64, error); nil = TRUE is the nil map
NilResult(e) == [nil |-> TRUE, m |-> <<>>, err |-> e]
OkResult(m) == [nil |-> FALSE, m |-> m, err |-> ErrNone]

\* m[id] = v
MapPut(m, id, v) == [x \in (DOMAIN m) \cup {id} |-> IF x = id THEN v ELSE m[x]]

DriftLimit == 2 * Hour

EffectiveTime_Inclusive(ts, age, nowT) ==
    LET diff == (nowT - TimeUnix(ts)) - age
    IN  IF diff >= DriftLimit THEN Unix(nowT - age) ELSE ts

EffectiveTime_AbsDrift(ts, age, nowT) ==
    LET diff == (nowT - TimeUnix(ts)) - age
        abs == IF diff < 0 THEN 0 - diff ELSE diff
    IN  IF abs > DriftLimit THEN Unix(nowT - age) ELSE ts

\* the drift correction of one fragment
EffectiveTime(ts, age, nowT) ==
    LET diff == (nowT - TimeUnix(ts)) - age
    IN  IF diff > DriftLimit THEN Unix(nowT - age) ELSE ts

RECURSIVE scanMatches_SkipMalformed(_, _, _, _)
scanMatches_SkipMalformed(matches, i, m, nowT) ==
    IF i > Len(matches)
    THEN OkResult(m)
    ELSE LET match == matches[i]
             a == parseAge(match.phrase)
         IN  IF a.err # ErrNone
             THEN scanMatches_SkipMalformed(matches, i + 1, m, nowT)
             ELSE scanMatches_SkipMalformed(matches, i + 1,
                      MapPut(m, match.id, EffectiveTime(match.ts, a.age, nowT)), nowT)

\* the loop over the matches, from match i on, with the mapping m built so far
RECURSIVE scanMatches(_, _, _, _)
scanMatches(matches, i, m, nowT) ==
    IF i > Len(matches)
    THEN OkResult(m)
    ELSE LET match == matches[i]
             a == parseAge(match.phrase)
         IN  IF a.err # ErrNone
             THEN NilResult(a.err)
             ELSE scanMatches(matches, i + 1,
                      MapPut(m, match.id, EffectiveTime(match.ts, a.age, nowT)), nowT)

\* what fetchFrontPageTimesInner returns for a response
fetchFrontPageTimesInner(resp, nowT) ==
    IF resp.kind # "ok"
    THEN NilResult(resp.kind)
    ELSE scanMatches(resp.matches, 1, <<>>, nowT)

NoEntry == [present |-> FALSE, data |-> <<>>, ts |-> 0]
Entry(m, t) == [present |-> TRUE, data |-> m, ts |-> t]

StoreResult_Always(cache, r, t) == Entry(r.m, t)

\* fetchCache after fetchFrontPageTimesInner returned r at time t:
\* fetchCache.Store runs only on the success path
StoreResult(cache, r, t) ==
    IF r.err = ErrNone THEN Entry(r.m, t) ELSE cache

-----------------------------------------------------------------------------
(* fetchFrontPageTimes under concurrent callers.                            *)

Callers == 1 .. NumCallers
NoCall == 0

\* the clock advances in steps of half a minute
ClockStep == 30 * Second
MaxClock == StartTime + MaxClockSteps * ClockStep

CacheValid_Inclusive(entry, t) == entry.present /\ t - entry.ts <= Minute

\* ok && time.Since(entry.ts) < time.Minute
CacheValid(entry, t) == entry.present /\ t - entry.ts < Minute

JoinsInFlight_Never(group) == FALSE

\* singleflight.Group.Do: a call for the key is in the group's map, so the
\* caller waits for it instead of running fn
JoinsInFlight(group) == group # NoCall

\* what the listing server may answer to a request made with `now` = nowT
Pages(nowT) ==
    { << [ts |-> Unix(StartTime) - 1800, id |-> 1, phrase |-> <<"3", "0", " ", "minutes">>] >>,
      << [ts |-> Unix(StartTime) - 5 * 3600, id |-> 2, phrase |-> <<"1", " ", "hour">>] >>,
      << [ts |-> Unix(StartTime) - 1800, id |-> 1, phrase |-> <<"2", " ", "hours">>],
         [ts |-> Unix(StartTime) - 1800, id |-> 2, phrase |-> <<"5", " ", "weeks">>] >> }

Responses(nowT) ==
    [kind : FetchErrors, matches : {<<>>}] \cup [kind : {"ok"}, matches : Pages(nowT)]

\* how the request of fetchFrontPageTimesInner(ctx, now) may end: with the
\* context's error if ctx is cancelled by then, else with an answer or a
\* failure of the server
RequestOutcomes(context, nowT) ==
    IF context = "cancelled"
    THEN {[kind |-> ErrCanceled, matches |-> <<>>]}
    ELSE Responses(nowT)

NoResult == [via |-> "none", nil |-> TRUE, m |-> <<>>, err |-> ErrNone]

\* the return of fetchFrontPageTimes after fetchGroup.Do gave (v, err) = r
Returned(r, via) ==
    IF r.err # ErrNone
    THEN [via |-> via, nil |-> TRUE, m |-> <<>>, err |-> r.err]
    ELSE [via |-> via, nil |-> FALSE, m |-> r.m, err |-> ErrNone]

ScrapeIdle ==
    /\ scPc = "off"
    /\ scResp = [kind |-> "ok", matches |-> <<>>]
    /\ scNow = 0
    /\ scOut = NilResult(ErrNone)

HandlerIdle ==
    /\ world = <<>>
    /\ fpRes = NilResult(ErrNone)
    /\ getErr = FALSE
    /\ candidates = <<>>
    /\ hPc = "off"
    /\ hOut = [status |-> 0]

InitFetch ==
    /\ clock = StartTime
    /\ fetchCache = NoEntry
    /\ fetchGroup = NoCall
    /\ calls = <<>>
    /\ pc = [c \in Callers |-> "idle"]
    /\ now = [c \in Callers |-> 0]
    /\ loaded = [c \in Callers |-> NoEntry]
    /\ mycall = [c \in Callers |-> NoCall]
    /\ result = [c \in Callers |-> NoResult]
    /\ requests = 0
    /\ ctx = [c \in Callers |-> "live"]
    /\ ScrapeIdle
    /\ HandlerIdle

\* a request handler takes now := time.Now() and calls fetchFrontPageTimes(ctx, now)
Enter(c) ==
    /\ pc[c] \in {"idle", "done"}
    /\ requests < MaxRequests
    /\ requests' = requests + 1
    /\ pc' = [pc EXCEPT ![c] = "load"]
    /\ now' = [now EXCEPT ![c] = clock]
    /\ loaded' = [loaded EXCEPT ![c] = NoEntry]
    /\ mycall' = [mycall EXCEPT ![c] = NoCall]
    /\ result' = [result EXCEPT ![c] = NoResult]
    /\ ctx' = [ctx EXCEPT ![c] = "live"]
    /\ UNCHANGED <<clock, fetchCache, fetchGroup, calls, scrapeVars, handlerVars>>

\* entry, ok := fetchCache.Load().(*fetchCacheEntry)
Load(c) ==
    /\ pc[c] = "load"
    /\ loaded' = [loaded EXCEPT ![c] = fetchCache]
    /\ pc' = [pc EXCEPT ![c] = "check"]
    /\ UNCHANGED <<clock, fetchCache, fetchGroup, calls, now, mycall, result, requests, ctx, scrapeVars, handlerVars>>

\* if ok && time.Since(entry.ts) < time.Minute { return entry.data, nil }
Check(c) ==
    /\ pc[c] = "check"
    /\ IF CacheValid(loaded[c], clock)
       THEN /\ result' = [result EXCEPT ![c] = Returned(OkResult(loaded[c].data), "cache")]
            /\ pc' = [pc EXCEPT ![c] = "done"]
            /\ now' = [now EXCEPT ![c] = 0]
       ELSE /\ pc' = [pc EXCEPT ![c] = "do"]
            /\ UNCHANGED <<result, now>>
    /\ loaded' = [loaded EXCEPT ![c] = NoEntry]
    /\ UNCHANGED <<clock, fetchCache, fetchGroup, calls, mycall, requests, ctx, scrapeVars, handlerVars>>

\* fetchGroup.Do("frontpage", fn): join the call in flight, or become the one
\* that runs fn = fetchFrontPageTimesInner(ctx, now) and send the request
Do(c) ==
    /\ pc[c] = "do"
    /\ IF JoinsInFlight(fetchGroup)
       THEN /\ mycall' = [mycall EXCEPT ![c] = fetchGroup]
            /\ pc' = [pc EXCEPT ![c] = "wait"]
            /\ now' = [now EXCEPT ![c] = 0]
            /\ UNCHANGED <<fetchGroup, calls>>
       ELSE /\ calls' = Append(calls,
                  [leader |-> c,
                   fresh |-> CacheValid(fetchCache, clock),
                   retry |-> /\ calls # <<>>
                             /\ calls[Len(calls)].r.err # ErrNone
                             /\ calls[Len(calls)].end = clock,
                   returned |-> FALSE, done |-> FALSE, end |-> 0,
                   r |-> NilResult(ErrNone)])
            /\ fetchGroup' = Len(calls) + 1
            /\ mycall' = [mycall EXCEPT ![c] = Len(calls) + 1]
            /\ pc' = [pc EXCEPT ![c] = "fetch"]
            /\ UNCHANGED now
    /\ UNCHANGED <<clock, fetchCache, loaded, result, requests, ctx, scrapeVars, handlerVars>>

\* the request of the running fetchFrontPageTimesInner ends with resp; the
\* function scans the matches, stores the entry on success and returns
Respond(c) ==
    /\ pc[c] = "fetch"
    /\ \E resp \in RequestOutcomes(ctx[c], now[c]) :
         LET k == mycall[c]
             r == fetchFrontPageTimesInner(resp, now[c])
         IN  /\ fetchCache' = StoreResult(fetchCache, r, clock)
             /\ calls' = [calls EXCEPT ![k].r = r, ![k].returned = TRUE]
    /\ pc' = [pc EXCEPT ![c] = "ret"]
    /\ now' = [now EXCEPT ![c] = 0]
    /\ UNCHANGED <<clock, fetchGroup, loaded, mycall, result, requests, ctx, scrapeVars, handlerVars>>

\* singleflight's doCall after fn: the call leaves the group's map, its
\* waiters are released, and the caller that ran fn returns
Complete(c) ==
    /\ pc[c] = "ret"
    /\ LET k == mycall[c]
       IN  /\ calls' = [calls EXCEPT ![k].done = TRUE, ![k].end = clock]
           /\ fetchGroup' = IF fetchGroup = k THEN NoCall ELSE fetchGroup
           /\ result' = [result EXCEPT ![c] = Returned(calls[k].r, "leader")]
    /\ pc' = [pc EXCEPT ![c] = "done"]
    /\ UNCHANGED <<clock, fetchCache, now, loaded, mycall, requests, ctx, scrapeVars, handlerVars>>

\* a caller that joined the call returns once the call is done
WaitDone(c) ==
    /\ pc[c] = "wait"
    /\ calls[mycall[c]].done
    /\ result' = [result EXCEPT ![c] = Returned(calls[mycall[c]].r, "shared")]
    /\ pc' = [pc EXCEPT ![c] = "done"]
    /\ UNCHANGED <<clock, fetchCache, fetchGroup, calls, now, loaded, mycall, requests, ctx, scrapeVars, handlerVars>>

Tick ==
    /\ clock + ClockStep <= MaxClock
    /\ clock' = clock + ClockStep
    /\ UNCHANGED <<fetchCache, fetchGroup, calls, pc, now, loaded, mycall, result, requests, ctx, scrapeVars, handlerVars>>

NextFetch ==
    \/ \E c \in Callers : Enter(c)
    \/ \E c \in Callers : Load(c)
    \/ \E c \in Callers : Check(c)
    \/ \E c \in Callers : Do(c)
    \/ \E c \in Callers : Respond(c)
    \/ \E c \in Callers : Complete(c)
    \/ \E c \in Callers : WaitDone(c)
    \/ Tick

SpecFetch == InitFetch /\ [][NextFetch]_vars

-----------------------------------------------------------------------------
(* Claims about the resolver under concurrent callers (SpecFetch)           *)

\* callers that are executing fetchFrontPageTimesInner
Running == {c \in Callers : pc[c] \in {"fetch", "ret"}}

\* callers inside fetchGroup.Do whose call has not completed
Attached == {c \in Callers : pc[c] \in {"fetch", "ret", "wait"} /\ ~calls[mycall[c]].done}

\* C1: single-flight. At most one fetchFrontPageTimesInner runs at any time;
\* every caller inside fetchGroup.Do while a call is in flight is attached to
\* that one call, a caller that joined stays blocked until the call is done,
\* and it returns the mapping or the error of the call, the same the caller
\* that started the call returns.
C1_SingleFlight ==
    /\ Cardinality(Running) <= 1
    /\ \A c \in Attached :
         /\ mycall[c] = fetchGroup
         /\ pc[c] = "wait" => calls[mycall[c]].leader \in Running
    /\ \A c \in Callers :
         (pc[c] = "done" /\ result[c].via = "shared") =>
            LET k == mycall[c]
                d == calls[k].leader
            IN  /\ calls[k].done
                /\ result[c].nil = calls[k].r.nil
                /\ result[c].m = calls[k].r.m
                /\ result[c].err = calls[k].r.err
                /\ (pc[d] = "done" /\ mycall[d] = k) =>
                      /\ result[d].via = "leader"
                      /\ result[d].nil = result[c].nil
                      /\ result[d].m = result[c].m
                      /\ result[d].err = result[c].err

\* two callers were in fetchGroup.Do together: one fetch, the same mapping for both
C1_Witness ==
    \E c, d \in Callers :
        /\ pc[c] = "done" /\ pc[d] = "done"
        /\ result[c].via = "shared" /\ result[d].via = "leader"
        /\ mycall[c] = mycall[d]
        /\ Len(calls) = 1
        /\ ~result[c].nil /\ result[c].m = result[d].m /\ DOMAIN result[c].m # {}

\* C2: no underlying fetch is started while the shared cache entry is less
\* than one minute old.
C2_NoFetchWhileCacheFresh ==
    \A k \in 1 .. Len(calls) : ~calls[k].fresh

\* C3: the check of a loaded entry stored less than a minute ago returns the
\* entry's mapping and no error at once, starting no fetch and joining none;
\* with no entry, or one that is a minute old or older, the caller goes on
\* to fetchGroup.Do.
C3_CacheHit ==
    [][\A c \in Callers :
          (pc[c] = "check" /\ pc'[c] # "check") =>
             IF loaded[c].present /\ clock - loaded[c].ts < Minute
             THEN /\ pc'[c] = "done"
                  /\ result'[c] = [via |-> "cache", nil |-> FALSE,
                                   m |-> loaded[c].data, err |-> ErrNone]
                  /\ calls' = calls
                  /\ fetchGroup' = fetchGroup
                  /\ mycall'[c] = NoCall
             ELSE /\ pc'[c] = "do"
                  /\ result'[c] = NoResult]_vars

\* a caller returned from the cache while a fetch was in flight
C3_Witness ==
    \E c \in Callers :
        /\ pc[c] = "done"
        /\ result[c].via = "cache"
        /\ DOMAIN result[c].m # {}
        /\ fetchGroup # NoCall

\* C4: a failed fetch leaves the cache entry as it was and gives an error with
\* the nil mapping; the entry changes only when a fetch succeeds, to the new
\* mapping with the time of the store; and a caller that reaches fetchGroup.Do
\* with no call in flight starts a fetch in that very step, whatever happened
\* before.
C4_FailureNotCached ==
    [][/\ \A c \in Callers :
            (pc[c] = "fetch" /\ pc'[c] = "ret" /\ calls'[mycall[c]].r.err # ErrNone) =>
               /\ fetchCache' = fetchCache
               /\ calls'[mycall[c]].r.nil
       /\ (fetchCache' # fetchCache) =>
             \E c \in Callers :
                /\ pc[c] = "fetch" /\ pc'[c] = "ret"
                /\ calls'[mycall[c]].r.err = ErrNone
                /\ fetchCache' = Entry(calls'[mycall[c]].r.m, clock)
       /\ \A c \in Callers :
            (pc[c] # "done" /\ pc'[c] = "done" /\ result'[c].err # ErrNone) =>
               result'[c].nil /\ result'[c].m = <<>>
       /\ \A c \in Callers :
            (pc[c] = "do" /\ pc'[c] # "do" /\ fetchGroup = NoCall) =>
               /\ pc'[c] = "fetch"
               /\ Len(calls') = Len(calls) + 1
               /\ fetchGroup' = Len(calls')]_vars

\* a fetch failed, nothing is cached, and the next fetch started before the
\* clock moved
C4_Witness ==
    \E k \in 1 .. Len(calls) :
        /\ calls[k].retry
        /\ calls[k - 1].done
        /\ fetchCache = NoEntry

-----------------------------------------------------------------------------
(* One run of fetchFrontPageTimesInner on any response (SpecScrape)         *)

\* the phrases a fragment may hold: "30 minutes", "2 hours", "5 hours",
\* " 1  day ", and the malformed "5hours", "5 weeks", "an hour"
Phrases ==
    { <<"3", "0", " ", "minutes">>,
      <<"2", " ", "hours">>,
      <<"5", " ", "hours">>,
      <<" ", "1", " ", " ", "day", " ">>,
      <<"5", "hours">>,
      <<"5", " ", "weeks">>,
      <<"an", " ", "hour">> }

\* how many seconds before `now` the title timestamp of a fragment lies:
\* 30 minutes, 2 hours 30 minutes, 5 hours
TsOffsets == {1800, 9000, 18000}

ItemIds == {1, 2}

Fragments(nowT) ==
    [ts : {Unix(nowT) - o : o \in TsOffsets}, id : ItemIds, phrase : Phrases]

MatchLists(nowT) == UNION {[1 .. n -> Fragments(nowT)] : n \in 0 .. MaxMatches}

InitScrape ==
    /\ scNow \in {StartTime + f : f \in 0 .. TicksPerSecond - 1}
    /\ scResp \in [kind : FetchErrors, matches : {<<>>}]
                    \cup [kind : {"ok"}, matches : MatchLists(scNow)]
    /\ scPc = "ready"
    /\ scOut = NilResult(ErrNone)
    /\ clock = scNow
    /\ fetchCache = NoEntry
    /\ fetchGroup = NoCall
    /\ calls = <<>>
    /\ pc = [c \in Callers |-> "idle"]
    /\ now = [c \in Callers |-> 0]
    /\ loaded = [c \in Callers |-> NoEntry]
    /\ mycall = [c \in Callers |-> NoCall]
    /\ result = [c \in Callers |-> NoResult]
    /\ requests = 0
    /\ ctx = [c \in Callers |-> "live"]
    /\ HandlerIdle

\* fetchFrontPageTimesInner(ctx, now) from the response to its return
Scrape ==
    /\ scPc = "ready"
    /\ scPc' = "done"
    /\ scOut' = fetchFrontPageTimesInner(scResp, scNow)
    /\ fetchCache' = StoreResult(fetchCache, scOut', clock)
    /\ UNCHANGED <<scResp, scNow, clock, fetchGroup, calls, pc, now, loaded, mycall,
                   result, requests, ctx, handlerVars>>

NextScrape == Scrape

SpecScrape == InitScrape /\ [][NextScrape]_vars

\* a phrase of the form "<N> <unit>": digits, blanks, one unit word, with
\* blanks allowed around
IsAgePhrase(p) ==
    \E i, j, u \in 1 .. Len(p) :
        /\ i <= j /\ j + 1 < u
        /\ \A x \in 1 .. Len(p) :
              /\ x < i => p[x] = Blank
              /\ (i <= x /\ x <= j) => p[x] \in Digits
              /\ (j < x /\ x < u) => p[x] = Blank
              /\ x = u => p[x] \in UnitWords
              /\ x > u => p[x] = Blank

\* the fragments that decide the mapping: the last one of each id
LastOfId(matches, i) == \A j \in i + 1 .. Len(matches) : matches[j].id # matches[i].id

Scraped == scPc = "done" /\ scResp.kind = "ok"

\* C5: the scrape fails closed. If the phrase of any matched fragment is no
\* age phrase, at whatever position, the scrape returns the nil mapping with
\* an error and stores nothing.
C5_FailClosed ==
    (Scraped /\ \E i \in 1 .. Len(scResp.matches) : ~IsAgePhrase(scResp.matches[i].phrase)) =>
        /\ scOut.err = ErrUnexpectedAgeFormat
        /\ scOut.nil
        /\ scOut.m = <<>>
        /\ fetchCache = NoEntry

\* a well-formed fragment first, a malformed one after it: nothing is returned
C5_Witness ==
    /\ Scraped
    /\ Len(scResp.matches) >= 2
    /\ IsAgePhrase(scResp.matches[1].phrase)
    /\ ~IsAgePhrase(scResp.matches[Len(scResp.matches)].phrase)
    /\ scOut.nil

\* (now - ts) - age of fragment f, in ticks
Drift(f) == (scNow - f.ts * Second) - parseAge(f.phrase).age

\* C6: drift correction. After a successful scrape the mapping has exactly
\* the ids of the fragments, and for each fragment (the last of its id) it
\* holds now - age, in unix seconds, if the drift is more than 2 hours and
\* the fragment's timestamp otherwise.
C6_DriftCorrection ==
    (Scraped /\ scOut.err = ErrNone) =>
        /\ DOMAIN scOut.m = {scResp.matches[i].id : i \in 1 .. Len(scResp.matches)}
        /\ \A i \in 1 .. Len(scResp.matches) :
              LET f == scResp.matches[i]
              IN  LastOfId(scResp.matches, i) =>
                     scOut.m[f.id] = IF Drift(f) > 2 * 60 * 60 * Second
                                     THEN (scNow - parseAge(f.phrase).age) \div Second
                                     ELSE f.ts

\* one fragment with a drift of exactly 2 hours and one with more
C6_Witness ==
    /\ Scraped /\ scOut.err = ErrNone
    /\ \E i, j \in 1 .. Len(scResp.matches) :
          /\ scResp.matches[i].id # scResp.matches[j].id
          /\ Drift(scResp.matches[i]) = 2 * Hour
          /\ scOut.m[scResp.matches[i].id] = scResp.matches[i].ts
          /\ Drift(scResp.matches[j]) > 2 * Hour
          /\ scOut.m[scResp.matches[j].id] # scResp.matches[j].ts

\* the page holds the one fragment (ts = now - off seconds, id 1, phrase)
OnePage(off, phrase) ==
    /\ Scraped
    /\ scNow = StartTime
    /\ scResp.matches = << [ts |-> Unix(scNow) - off, id |-> 1, phrase |-> phrase] >>

\* C7 as stated: with the timestamp now-30min, "5 hours ago" gives now-5h and
\* "2 hours ago" gives now-30min.
C7_SpecCases ==
    /\ OnePage(1800, <<"5", " ", "hours">>) =>
          (~scOut.nil /\ scOut.m[1] = Unix(scNow) - 5 * 3600)
    /\ OnePage(1800, <<"2", " ", "hours">>) =>
          (~scOut.nil /\ scOut.m[1] = Unix(scNow) - 1800)

\* C7 amended: with the timestamp now-30min both "5 hours ago" (drift -4.5h)
\* and "2 hours ago" (drift -1.5h) keep the timestamp now-30min; the relative
\* age wins when the timestamp is the older one: timestamp now-5h with
\* "30 minutes ago" (drift 4.5h) gives now-30min.
C7_DriftCases ==
    /\ OnePage(1800, <<"5", " ", "hours">>) =>
          (~scOut.nil /\ scOut.m[1] = Unix(scNow) - 1800)
    /\ OnePage(1800, <<"2", " ", "hours">>) =>
          (~scOut.nil /\ scOut.m[1] = Unix(scNow) - 1800)
    /\ OnePage(18000, <<"3", "0", " ", "minutes">>) =>
          (~scOut.nil /\ scOut.m[1] = Unix(scNow) - 1800)

C7_Witness ==
    /\ OnePage(1800, <<"5", " ", "hours">>)
    /\ scOut.m = (1 :> Unix(scNow) - 1800)

-----------------------------------------------------------------------------
(* The items of one GET /active request.  Item i of a world is the record   *)
(* [parent, time, dead, deleted]; parent = 0 is the nil Parent of a story,  *)
(* a comment's parent has a smaller id.  Times are unix seconds.            *)

\* the request's now := time.Now() and the defaults of its query parameters
HandlerNow == StartTime
Window == Hour
MaxAge == 24 * Hour

\* activeAfter := now.Add(-window)
ActiveAfter == HandlerNow - Window

\* what an item may be: 10 minutes old (alive, dead or deleted), exactly as
\* old as the window, or 2 days old
ItemKinds ==
    { [time |-> Unix(HandlerNow) - 600, dead |-> FALSE, deleted |-> FALSE],
      [time |-> Unix(HandlerNow) - 600, dead |-> TRUE, deleted |-> FALSE],
      [time |-> Unix(HandlerNow) - 600, dead |-> FALSE, deleted |-> TRUE],
      [time |-> Unix(HandlerNow) - 3600, dead |-> FALSE, deleted |-> FALSE],
      [time |-> Unix(HandlerNow) - 172800, dead |-> FALSE, deleted |-> FALSE] }

\* worlds of exactly n items
RECURSIVE WorldsOf(_)
WorldsOf(n) ==
    IF n = 0
    THEN {<<>>}
    ELSE {Append(w, [parent |-> q, time |-> k.time, dead |-> k.dead, deleted |-> k.deleted]) :
             w \in WorldsOf(n - 1), q \in 0 .. n - 1, k \in ItemKinds}

Worlds(max) == UNION {WorldsOf(n) : n \in 1 .. max}

\* the stories: what unl.GetActive returns as items
Stories(w) == {i \in 1 .. Len(w) : w[i].parent = 0}

\* allByParent[id].Slice(): the children of id, by ascending id
Children(w, id) ==
    LET ks == {j \in 1 .. Len(w) : w[j].parent = id}
        RECURSIVE Asc(_)
        Asc(S) == IF S = {} THEN <<>>
                  ELSE LET lo == CHOOSE x \in S : \A y \in S : x <= y
                       IN  <<lo>> \o Asc(S \ {lo})
    IN  Asc(ks)

\* time.Unix(item.Time, 0).After(activeAfter) && !item.Dead && !item.Deleted
IsActive(w, id) ==
    /\ w[id].time * Second > ActiveAfter
    /\ ~w[id].dead
    /\ ~w[id].deleted

-----------------------------------------------------------------------------
(* The pretty writer of the tree handler (SpecTree)                         *)

\* findActiveChild: some item of allByParent[item.ID] is active
findActiveChild(w, id) ==
    \E i \in 1 .. Len(Children(w, id)) : IsActive(w, Children(w, id)[i])

\* writeItemIndent: the line of one item
writeItemIndent(w, id, showText, isActive, hasActiveChild, indent) ==
    [id |-> id, indent |-> indent, text |-> IF showText THEN "text" ELSE "",
     root |-> w[id].parent = 0, active |-> isActive, child |-> hasActiveChild]

\* writeTreeRecurse: the lines of item id and, after it, of its subtree
RECURSIVE writeTreeRecurse(_, _, _)
writeTreeRecurse(w, id, indent) ==
    LET isActive == IsActive(w, id)
        hasActiveChild == findActiveChild(w, id)
        cc == Children(w, id)
        RECURSIVE Sub(_)
        Sub(i) == IF i > Len(cc) THEN <<>>
                  ELSE writeTreeRecurse(w, cc[i],
                           Append(indent, IF i # Len(cc) THEN "|" ELSE " ")) \o Sub(i + 1)
    IN  <<writeItemIndent(w, id, isActive \/ hasActiveChild \/ w[id].parent = 0,
                          isActive, hasActiveChild, indent)>> \o Sub(1)

\* pw.writeTree(item, tree) for each item, in the order of items
RECURSIVE writeTrees(_, _)
writeTrees(w, items) ==
    IF items = <<>> THEN <<>>
    ELSE writeTreeRecurse(w, Head(items), <<>>) \o writeTrees(w, Tail(items))

FetchIdle ==
    /\ clock = StartTime
    /\ fetchCache = NoEntry
    /\ fetchGroup = NoCall
    /\ calls = <<>>
    /\ pc = [c \in Callers |-> "idle"]
    /\ now = [c \in Callers |-> 0]
    /\ loaded = [c \in Callers |-> NoEntry]
    /\ mycall = [c \in Callers |-> NoCall]
    /\ result = [c \in Callers |-> NoResult]
    /\ requests = 0
    /\ ctx = [c \in Callers |-> "live"]

InitTree ==
    /\ world \in Worlds(MaxTreeItems)
    /\ getErr \in BOOLEAN
    /\ fpRes = NilResult(ErrNone)
    /\ candidates = <<>>
    /\ hPc = "ready"
    /\ hOut = [status |-> 0]
    /\ FetchIdle
    /\ ScrapeIdle

\* the GET /active handler from unl.GetActive on
HandleTree ==
    /\ hPc = "ready"
    /\ hPc' = "done"
    /\ hOut' = IF getErr
               THEN [status |-> 500]
               ELSE [status |-> 200,
                     lines |-> writeTrees(world, Children(world, 0))]
    /\ UNCHANGED <<world, fpRes, getErr, candidates, fetchVars, scrapeVars>>

NextTree == HandleTree

SpecTree == InitTree /\ [][NextTree]_vars

\* j is a direct or transitive descendant of a
RECURSIVE IsDescendant(_, _, _)
IsDescendant(w, a, j) ==
    /\ w[j].parent # 0
    /\ (w[j].parent = a \/ IsDescendant(w, a, w[j].parent))

\* C9: the has-active-descendant mark of every written item is set if and
\* only if some descendant of the item, at any depth, is active; an item
\* with such a descendant is written with its text.
C9_ChildMarkAnyDepth ==
    (hPc = "done" /\ hOut.status = 200) =>
        \A n \in 1 .. Len(hOut.lines) :
            LET l == hOut.lines[n]
                fresh == \E j \in 1 .. Len(world) :
                             IsDescendant(world, l.id, j) /\ IsActive(world, j)
            IN  /\ l.child <=> fresh
                /\ fresh => l.text # ""

-----------------------------------------------------------------------------
(* handleActive and getActiveRoots of main.go (SpecActive)                  *)

\* the bits of an activity mark
ActiveMapSelf == {"SELF"}
ActiveMapChild == {"CHILD"}

\* unl.FlattenTree: the subtree of id in depth-first pre-order, children in
\* stored order, with the depth of each item
RECURSIVE FlattenTree(_, _, _)
FlattenTree(w, id, depth) ==
    LET cc == Children(w, id)
        RECURSIVE Sub(_)
        Sub(i) == IF i > Len(cc) THEN <<>>
                  ELSE FlattenTree(w, cc[i], depth + 1) \o Sub(i + 1)
    IN  <<[id |-> id, depth |-> depth]>> \o Sub(1)

\* j lies below a in the tree
RECURSIVE Below(_, _, _)
Below(w, a, j) ==
    /\ w[j].parent # 0
    /\ (w[j].parent = a \/ Below(w, a, w[j].parent))

\* unl.BuildActiveMap: SELF for an active item, CHILD for an item with an
\* active item anywhere below it
BuildActiveMap(w, flat) ==
    [id \in {flat[n].id : n \in 1 .. Len(flat)} |->
        (IF IsActive(w, id) THEN ActiveMapSelf ELSE {})
        \cup (IF \E j \in 1 .. Len(w) : Below(w, id, j) /\ IsActive(w, j)
              THEN ActiveMapChild ELSE {})]

ErrGetActive == "GetActive failed"

\* what unl.FetchFrontPageTimes may give a request: an error (with or without
\* a mapping), no times, a recent time for item 1, an old time for item 1,
\* for item 1 the very second of agedAfter together with a recent time for
\* item 2
FrontPageResults ==
    { NilResult(ErrRequest),
      [nil |-> FALSE, m |-> (1 :> Unix(HandlerNow) - 300), err |-> ErrRequest],
      OkResult(<<>>),
      OkResult(1 :> Unix(HandlerNow) - 300),
      OkResult(1 :> Unix(HandlerNow) - 172800),
      OkResult((1 :> Unix(HandlerNow) - 86400) @@ (2 :> Unix(HandlerNow) - 300)) }

UsableTimes_KeepOnError(fp) == fp.m

\* frontPageTimes after the error check of getActiveRoots (nil has no ids)
UsableTimes(fp) == IF fp.err # ErrNone THEN <<>> ELSE fp.m

\* secondChanceFailed of getActiveRoots
SecondChanceFailed(fp) == fp.err # ErrNone

\* agedAfter := time.Now().Add(-maxAge)
AgedAfter == HandlerNow - MaxAge

RECURSIVE selectRoots_LaterOnly(_, _, _, _)
selectRoots_LaterOnly(w, items, i, frontPageTimes) ==
    IF i > Len(items)
    THEN <<>>
    ELSE LET id == items[i]
             t == IF id \in DOMAIN frontPageTimes /\ frontPageTimes[id] > w[id].time
                  THEN frontPageTimes[id] ELSE w[id].time
         IN  (IF t * Second > AgedAfter THEN <<[id |-> id, time |-> t]>> ELSE <<>>)
             \o selectRoots_LaterOnly(w, items, i + 1, frontPageTimes)

\* the loop of getActiveRoots over items[i..]: a root for each item whose
\* effective time is after agedAfter
RECURSIVE selectRoots(_, _, _, _)
selectRoots(w, items, i, frontPageTimes) ==
    IF i > Len(items)
    THEN <<>>
    ELSE LET id == items[i]
             t == IF id \in DOMAIN frontPageTimes THEN frontPageTimes[id] ELSE w[id].time
         IN  (IF t * Second > AgedAfter THEN <<[id |-> id, time |-> t]>> ELSE <<>>)
             \o selectRoots(w, items, i + 1, frontPageTimes)

\* getActiveRoots: (roots, secondChanceFailed, err)
getActiveRoots(w, fp, failGet) ==
    IF failGet
    THEN [roots |-> <<>>, secondChanceFailed |-> SecondChanceFailed(fp), err |-> ErrGetActive]
    ELSE [roots |-> selectRoots(w, Children(w, 0), 1, UsableTimes(fp)),
          secondChanceFailed |-> SecondChanceFailed(fp), err |-> ErrNone]

TextWanted_SelfOnly(ae) == (ae \cap ActiveMapSelf) # {}

\* if ae != 0 { text = formatText(item.Item, textCache) }
TextWanted(ae) == ae # {}

\* the response items of one root: the loop over flat
rootItems(w, root) ==
    LET flat == FlattenTree(w, root.id, 0)
        built == BuildActiveMap(w, flat)
        activeMap == [id \in DOMAIN built |-> IF id = root.id THEN ActiveMapChild ELSE built[id]]
    IN  [n \in 1 .. Len(flat) |->
            LET id == flat[n].id
                ae == activeMap[id]
            IN  [id |-> id,
                 depth |-> flat[n].depth,
                 t |-> IF id = root.id THEN root.time ELSE w[id].time,
                 secondChance |-> id = root.id /\ w[id].time # root.time,
                 mark |-> ae,
                 text |-> IF TextWanted(ae) THEN "text" ELSE "",
                 active |-> (ae \cap ActiveMapSelf) # {}]]

RECURSIVE allItems(_, _, _)
allItems(w, roots, i) ==
    IF i > Len(roots) THEN <<>>
    ELSE rootItems(w, roots[i]) \o allItems(w, roots, i + 1)

InitActive ==
    /\ world \in Worlds(MaxItems)
    /\ fpRes \in FrontPageResults
    /\ getErr \in BOOLEAN
    /\ candidates = <<>>
    /\ hPc = "ready"
    /\ hOut = [status |-> 0]
    /\ FetchIdle
    /\ ScrapeIdle

\* handleActive from now := time.Now() to the response
HandleActive ==
    /\ hPc = "ready"
    /\ hPc' = "done"
    /\ LET r == getActiveRoots(world, fpRes, getErr)
       IN  hOut' = IF r.err # ErrNone
                   THEN [status |-> 500]
                   ELSE [status |-> 200,
                         roots |-> r.roots,
                         items |-> allItems(world, r.roots, 1),
                         secondChanceFailed |-> r.secondChanceFailed]
    /\ UNCHANGED <<world, fpRes, getErr, candidates, fetchVars, scrapeVars>>

NextActive == HandleActive

SpecActive == InitActive /\ [][NextActive]_vars

Handled == hPc = "done"

\* the stories that are young enough by their own creation time
OwnTimeRoots == {i \in Stories(world) : world[i].time * Second > AgedAfter}

\* the roots are the stories of OwnTimeRoots, each with its own creation time
RootsUseOwnTime ==
    /\ {hOut.roots[n].id : n \in 1 .. Len(hOut.roots)} = OwnTimeRoots
    /\ \A n \in 1 .. Len(hOut.roots) : hOut.roots[n].time = world[hOut.roots[n].id].time
    /\ \A n \in 1 .. Len(hOut.items) :
          hOut.items[n].depth = 0 =>
             /\ hOut.items[n].t = world[hOut.items[n].id].time
             /\ ~hOut.items[n].secondChance

\* C8 as stated: whenever the resolver fails the request succeeds, with the
\* roots at their own creation times and SecondChanceFailed set; and
\* SecondChanceFailed is set only if the resolver failed.
C8_ResolverFailureNeverFatal ==
    /\ (Handled /\ fpRes.err # ErrNone) =>
          /\ hOut.status = 200
          /\ hOut.secondChanceFailed
          /\ RootsUseOwnTime
    /\ (Handled /\ hOut.status = 200 /\ hOut.secondChanceFailed) => fpRes.err # ErrNone

\* C8 amended: a failure of the resolver alone never fails the request. If
\* unl.GetActive succeeds, the request succeeds with the roots at their own
\* creation times and SecondChanceFailed set; if unl.GetActive fails too,
\* the request fails with status 500 and carries no SecondChanceFailed.
\* SecondChanceFailed is set only if the resolver failed.
C8_DegradedNotFatal ==
    /\ (Handled /\ fpRes.err # ErrNone /\ ~getErr) =>
          /\ hOut.status = 200
          /\ hOut.secondChanceFailed
          /\ RootsUseOwnTime
    /\ (Handled /\ getErr) => hOut = [status |-> 500]
    /\ (Handled /\ hOut.status = 200 /\ hOut.secondChanceFailed) => fpRes.err # ErrNone

\* the resolver failed, leaving a time for story 1 that is not its own; the
\* request succeeded with story 1 as a root
C8_Witness ==
    /\ Handled
    /\ fpRes.err # ErrNone
    /\ hOut.status = 200
    /\ hOut.secondChanceFailed
    /\ 1 \in DOMAIN fpRes.m
    /\ hOut.roots # <<>>
    /\ hOut.roots[1] = [id |-> 1, time |-> world[1].time]
    /\ fpRes.m[1] # world[1].time

\* C10: the Active of every root in the response is the root's own SELF bit:
\* true for a root created after activeAfter that is neither dead nor deleted.
C10_RootKeepsSelf ==
    (Handled /\ hOut.status = 200) =>
        \A n \in 1 .. Len(hOut.items) :
            hOut.items[n].depth = 0 =>
               hOut.items[n].active = IsActive(world, hOut.items[n].id)

\* the mark unl.BuildActiveMap computes for an item of the response
ComputedMark(id) == BuildActiveMap(world, FlattenTree(world, id, 0))[id]

\* the ids and depths of a sequence of response items, in order
Shape(items) == [n \in 1 .. Len(items) |-> [id |-> items[n].id, depth |-> items[n].depth]]

\* the trees of the roots, one after the other, each in pre-order
RECURSIVE FlatRoots(_, _)
FlatRoots(roots, i) ==
    IF i > Len(roots) THEN <<>>
    ELSE FlattenTree(world, roots[i].id, 0) \o FlatRoots(roots, i + 1)

\* the world with the same tree and times in which no item is active
Quiet(w) == [i \in 1 .. Len(w) |-> [w[i] EXCEPT !.dead = TRUE]]

\* C11: every item of the response has a text if and only if its computed
\* mark is not empty or it is the root of its traversal (depth 0); every other
\* item has the empty text. The ids and depths of the response are the trees
\* of the roots in pre-order, the same as if no item were active.
C11_RenderingDecision ==
    (Handled /\ hOut.status = 200) =>
        /\ \A n \in 1 .. Len(hOut.items) :
              LET it == hOut.items[n]
              IN  /\ (it.text # "") <=> (ComputedMark(it.id) # {} \/ it.depth = 0)
                  /\ it.text \in {"", "text"}
        /\ Shape(hOut.items) = FlatRoots(hOut.roots, 1)
        /\ Shape(hOut.items) = Shape(allItems(Quiet(world), hOut.roots, 1))

\* a response with a root whose computed mark is empty and that has its text,
\* a comment with an empty mark emitted as a placeholder at depth 1, and after
\* it a comment with a mark and its text
C11_Witness ==
    /\ Handled
    /\ hOut.status = 200
    /\ Len(hOut.items) = 3
    /\ hOut.items[1].depth = 0
    /\ ComputedMark(hOut.items[1].id) = {}
    /\ hOut.items[1].text = "text"
    /\ hOut.items[2].depth = 1
    /\ ComputedMark(hOut.items[2].id) = {}
    /\ hOut.items[2].text = ""
    /\ ComputedMark(hOut.items[3].id) # {}
    /\ hOut.items[3].text = "text"

\* the effective time of a candidate: its time in the front-page mapping the
\* loop of getActiveRoots reads, its own creation time if it has none
EffectiveRootTime(id) ==
    IF id \in DOMAIN UsableTimes(fpRes) THEN UsableTimes(fpRes)[id] ELSE world[id].time

-----------------------------------------------------------------------------
(* getActiveRoots of the version that orders the roots itself (SpecRoots).  *)
(* A candidate is the record [id, time] of an hn.Item.                      *)

\* the ids and creation times of the candidates: 10 minutes, an hour and two
\* days before the request
CandidateIds == {100 * k : k \in 1 .. MaxCandidates}
CandidateTimes == {Unix(HandlerNow) - 600, Unix(HandlerNow) - 3600, Unix(HandlerNow) - 172800}

\* the candidate lists of exactly n items with different ids
RECURSIVE CandidatesOf(_)
CandidatesOf(n) ==
    IF n = 0
    THEN {<<>>}
    ELSE {Append(l, [id |-> id, time |-> t]) :
             l \in CandidatesOf(n - 1), id \in CandidateIds, t \in CandidateTimes}

CandidateLists ==
    {l \in UNION {CandidatesOf(n) : n \in 0 .. MaxCandidates} :
        \A n, k \in 1 .. Len(l) : l[n].id = l[k].id => n = k}

\* what fetchFrontPageTimes may give: an error, no times, for item 100 a time
\* later than every creation time, for item 100 the creation time of the
\* 10 minutes old and for item 200 a time before agedAfter
SortedFrontPageResults ==
    { NilResult(ErrRequest),
      OkResult(<<>>),
      OkResult(100 :> Unix(HandlerNow) - 300),
      OkResult((100 :> Unix(HandlerNow) - 600) @@ (200 :> Unix(HandlerNow) - 259200)) }

lessRoot_TimeOnly(a, b) == a.time > b.time

\* the less function given to sort.Slice
lessRoot(a, b) ==
    IF a.time = b.time THEN a.id > b.id ELSE a.time > b.time

\* sort.Slice(roots, less): r goes in front of the first root it is less than
RECURSIVE insertRoot(_, _)
insertRoot(r, sorted) ==
    IF sorted = <<>> THEN <<r>>
    ELSE IF lessRoot(r, Head(sorted)) THEN <<r>> \o sorted
    ELSE <<Head(sorted)>> \o insertRoot(r, Tail(sorted))

RECURSIVE sortSlice(_)
sortSlice(roots) ==
    IF roots = <<>> THEN <<>>
    ELSE insertRoot(roots[Len(roots)], sortSlice(SubSeq(roots, 1, Len(roots) - 1)))

\* the loop over the candidates: updated is taken when it is later than the
\* candidate's own time
RECURSIVE appendRoots(_, _, _)
appendRoots(cands, i, frontPageTimes) ==
    IF i > Len(cands)
    THEN <<>>
    ELSE LET item == cands[i]
             t == IF item.id \in DOMAIN frontPageTimes /\ frontPageTimes[item.id] > item.time
                  THEN frontPageTimes[item.id] ELSE item.time
         IN  (IF t * Second > AgedAfter THEN <<[id |-> item.id, time |-> t]>> ELSE <<>>)
             \o appendRoots(cands, i + 1, frontPageTimes)

\* getActiveRoots of the sorting version: (roots, err)
getActiveRootsSorted(cands, fp, failGet) ==
    IF failGet
    THEN [roots |-> <<>>, err |-> ErrGetActive]
    ELSE [roots |-> sortSlice(appendRoots(cands, 1, IF fp.err # ErrNone THEN <<>> ELSE fp.m)),
          err |-> ErrNone]

InitRoots ==
    /\ world = <<>>
    /\ candidates \in CandidateLists
    /\ fpRes \in SortedFrontPageResults
    /\ getErr \in BOOLEAN
    /\ hPc = "ready"
    /\ hOut = [status |-> 0]
    /\ FetchIdle
    /\ ScrapeIdle

\* the handler up to the return of getActiveRoots
GetRoots ==
    /\ hPc = "ready"
    /\ hPc' = "done"
    /\ LET r == getActiveRootsSorted(candidates, fpRes, getErr)
       IN  hOut' = IF r.err # ErrNone
                   THEN [status |-> 500]
                   ELSE [status |-> 200, roots |-> r.roots]
    /\ UNCHANGED <<world, fpRes, getErr, candidates, fetchVars, scrapeVars>>

NextRoots == GetRoots

SpecRoots == InitRoots /\ [][NextRoots]_vars

\* the candidate lists with the candidates of l in any order
Reorderings(l) ==
    {p \in CandidateLists :
        Len(p) = Len(l) /\ {p[n] : n \in 1 .. Len(p)} = {l[n] : n \in 1 .. Len(l)}}

-----------------------------------------------------------------------------
(* Cancellation of the callers' contexts (SpecCancel).  The context of a    *)
(* caller is the context of its HTTP request; fetchFrontPageTimes hands it  *)
(* to fetchFrontPageTimesInner inside the function given to fetchGroup.Do,  *)
(* so the request in flight carries the context of the caller that runs it. *)

\* the context a caller supplied is cancelled while the caller is inside
\* fetchFrontPageTimes
Cancel(c) ==
    /\ pc[c] \in {"load", "check", "do", "fetch", "wait"}
    /\ ctx[c] = "live"
    /\ ctx' = [ctx EXCEPT ![c] = "cancelled"]
    /\ UNCHANGED <<clock, fetchCache, fetchGroup, calls, pc, now, loaded, mycall, result,
                   requests, scrapeVars, handlerVars>>

NextCancel ==
    \/ \E c \in Callers : Enter(c)
    \/ \E c \in Callers : Load(c)
    \/ \E c \in Callers : Check(c)
    \/ \E c \in Callers : Do(c)
    \/ \E c \in Callers : Respond(c)
    \/ \E c \in Callers : Complete(c)
    \/ \E c \in Callers : WaitDone(c)
    \/ \E c \in Callers : Cancel(c)

\* every caller's own steps are taken, and a request whose context is
\* cancelled ends; a request with a live context may stay unanswered, since
\* http.DefaultClient has no timeout
FairCancel ==
    \A c \in Callers :
        /\ WF_vars(Load(c))
        /\ WF_vars(Check(c))
        /\ WF_vars(Do(c))
        /\ WF_vars(Respond(c) /\ ctx[c] = "cancelled")
        /\ WF_vars(Complete(c))
        /\ WF_vars(WaitDone(c))

SpecCancel == InitFetch /\ [][NextCancel]_vars /\ FairCancel

\* the caller whose context the call c is attached to runs under
FetchContext(c) == ctx[calls[mycall[c]].leader]

\* a request that ends with its context cancelled fails with the context's
\* error and leaves the cache entry as it was
CancelledFetchFails ==
    [][\A c \in Callers :
          (pc[c] = "fetch" /\ pc'[c] = "ret" /\ ctx[c] = "cancelled") =>
              /\ calls'[mycall[c]].r = NilResult(ErrCanceled)
              /\ fetchCache' = fetchCache]_vars

\* every caller of a call that failed with the context's error returns that
\* error
WaitersShareCancellation ==
    [](\A c \in Callers :
          (pc[c] = "done" /\ mycall[c] # NoCall /\ calls[mycall[c]].r.err = ErrCanceled) =>
              (result[c].nil /\ result[c].err = ErrCanceled))

\* no caller stays blocked on a call whose request runs under a cancelled
\* context
CancelReleasesWaiters ==
    \A c \in Callers :
        (pc[c] = "wait" /\ ~calls[mycall[c]].returned /\ FetchContext(c) = "cancelled")
            ~> (pc[c] = "done")

\* a caller whose own context is cancelled does not go on waiting on the call
WaitEndsWithOwnContext ==
    \A c \in Callers :
        (pc[c] = "wait" /\ ctx[c] = "cancelled") ~> (pc[c] = "done")

\* C14: when the context of the request in flight is cancelled, the call
\* fails with the cancellation error, the cache entry is not modified, every
\* caller attached to the call returns that same error and none stays
\* blocked; and a caller whose own context is cancelled stops waiting on the
\* call.
C14_CancellationPropagates ==
    /\ CancelledFetchFails
    /\ WaitersShareCancellation
    /\ CancelReleasesWaiters
    /\ WaitEndsWithOwnContext

====
